---- MODULE Spec2Model ----
(***************************************************************************)
(* Model of the IBPM driver (ibpm.cc, main) and of the Euler time stepper  *)
(* (Euler.cc, Euler::advance).  The driver is a single thread of control;  *)
(* pc is its position.  Scalar, Flux and BoundaryVector fields are         *)
(* abstracted to one residue modulo FieldMod each.                         *)
(***************************************************************************)
EXTENDS Integers, Sequences, FiniteSets

\* ---------------------------------------------------------------- bounds
FieldMod == 3
MaxSteps == 2
MaxPeriod == 2

FieldVals == 0 .. (FieldMod - 1)
Timesteps == {2, 4}
Lambdas == {0, 1}
NotMoved == -1

ModelNames == {"nonlinear", "linear", "Adjoint", "linearperiodic", "bogus"}
SolverNames == {"euler", "bogus"}
BaseFlowNames == {"", "base.bin"}
PeriodBaseFlowNames == {"", "pbf%05d.bin"}
IcNames == {"", "ic.bin"}

VARIABLES
    pc,                 \* position of the driver / of advance
    exitAt,             \* which exit() ended the run ("" while running)
    \* command line (ibpm.cc 46-96)
    helpFlag, inputIsValid, modelName, baseFlow, periodBaseFlowName,
    integratorType, icFile, subtractBaseflow, numSteps, dt, period,
    modelType,          \* result of str2model
    \* geometry
    stationary,         \* Geometry::isStationary()
    bodiesAt,           \* time the bodies were last moved to (NotMoved: as loaded)
    \* model
    x0,                 \* base flow snapshots held by the model
    x00,                \* the driver's base flow state
    baseLoadOk,         \* results of the base-flow load() calls
    lambda,             \* model->getLambda()
    \* time stepper
    eig,                \* _linearTermEigenvalues
    lifecycle,          \* calls made on the stepper: load_ok/load_fail/init/save
    \* state x and loop
    x,                  \* [gamma, q, f, time]  (gamma is x.omega in ibpm.cc)
    icLoad,             \* "none", "ok" or "failed"
    i,                  \* loop counter of main
    \* locals of advance
    a, b,
    \* history of the run
    entry,              \* x as it was when the current advance was called
    ops,                \* operations performed by the current advance call
    nAdv,               \* advance calls that have returned
    t0,                 \* x.time when the loop started
    bRead,              \* bodiesAt at the moment b was read
    solveFailed         \* the solve of the current advance did not converge

vars == <<pc, exitAt, helpFlag, inputIsValid, modelName, baseFlow,
          periodBaseFlowName, integratorType, icFile, subtractBaseflow,
          numSteps, dt, period, modelType, stationary, bodiesAt, x0, x00,
          baseLoadOk, lambda, eig, lifecycle, x, icLoad, i, a, b, entry,
          ops, nAdv, t0, bRead, solveFailed>>

args == <<helpFlag, inputIsValid, modelName, baseFlow, periodBaseFlowName,
          integratorType, icFile, subtractBaseflow, numSteps, dt, period>>
geomVars == <<stationary, bodiesAt>>
modelVars == <<x0, x00, baseLoadOk, lambda>>
advLocals == <<a, b>>
hist == <<entry, ops, nAdv, t0, bRead, solveFailed>>

ZeroBase == [q |-> 0, gamma |-> 0]
ZeroState == [gamma |-> 0, q |-> 0, f |-> 0, time |-> 0]
\* contents a base-flow State can have after load(): a zero and a nonzero flow
BaseStates == {ZeroBase, [q |-> 1, gamma |-> 2]}
\* contents of the initial-condition files tried
IcStates == {[gamma |-> 1, q |-> 2, f |-> 1, time |-> 3],
             [gamma |-> 2, q |-> 0, f |-> 0, time |-> 0]}

\* ------------------------------------------------------------- helpers
MakeLowercase(s) ==
    IF s = "Adjoint" THEN "adjoint" ELSE s

str2model(name) ==
    LET n == MakeLowercase(name) IN
    IF n = "nonlinear" THEN "NONLINEAR"
    ELSE IF n = "linear" THEN "LINEAR"
    ELSE IF n = "adjoint" THEN "ADJOINT"
    ELSE IF n = "linearperiodic" THEN "LINEARPERIODIC"
    ELSE "INVALID"

\* transforms of the model, mutual inverses
S(g) == (g + 1) % FieldMod
Sinv(g) == (g + FieldMod - 1) % FieldMod

\* flux of a circulation field
computeFlux(g) == (g + 1) % FieldMod

\* base flow snapshot used by the periodic model at time t
BaseAt(t) ==
    IF Len(x0) = 0 THEN ZeroBase ELSE x0[(t % Len(x0)) + 1]

\* explicit term of the model at state s
nonlinear(s) ==
    IF modelType = "NONLINEAR" THEN (s.q * s.gamma) % FieldMod
    ELSE IF modelType = "LINEAR"
        THEN (x0[1].q * s.gamma + s.q * x0[1].gamma) % FieldMod
    ELSE IF modelType = "ADJOINT"
        THEN (x0[1].q * s.gamma + s.q * x0[1].gamma + 1) % FieldMod
    ELSE (BaseAt(s.time).q * s.gamma + s.q * BaseAt(s.time).gamma) % FieldMod

\* boundary velocities for the bodies where they now are
getVelocities ==
    IF bodiesAt = NotMoved THEN 0 ELSE (bodiesAt + 1) % FieldMod

\* ProjectionSolver::solve: new circulation and boundary force
solveGamma(ra, rb) == (ra + rb) % FieldMod
solveF(ra, rb) == (ra + 2 * rb + 1) % FieldMod

\* Euler::Euler: 1 + (timestep/2) * Lambda
linearTermEigenvalues(lam, h) == ((lam * h) \div 2 + 1) % FieldMod

\* Euler::advance 42-47
rhsA(s, e, h) == (Sinv((S(s.gamma) * e) % FieldMod) + h * nonlinear(s)) % FieldMod

\* ------------------------------------------------------------------ Init
Init ==
    /\ pc = "parse"
    /\ exitAt = ""
    /\ helpFlag \in BOOLEAN
    /\ inputIsValid \in BOOLEAN
    /\ modelName \in ModelNames
    /\ baseFlow \in BaseFlowNames
    /\ periodBaseFlowName \in PeriodBaseFlowNames
    /\ integratorType \in SolverNames
    /\ icFile \in IcNames
    /\ subtractBaseflow \in BOOLEAN
    /\ numSteps \in 0 .. MaxSteps
    /\ dt \in Timesteps
    /\ period \in 1 .. MaxPeriod
    /\ modelType = "INVALID"
    /\ stationary = TRUE
    /\ bodiesAt = NotMoved
    /\ x0 = <<>>
    /\ x00 = ZeroBase
    /\ baseLoadOk = <<>>
    /\ lambda = 0
    /\ eig = 0
    /\ lifecycle = <<>>
    /\ x = ZeroState
    /\ icLoad = "none"
    /\ i = 0
    /\ a = 0
    /\ b = 0
    /\ entry = ZeroState
    /\ ops = <<>>
    /\ nAdv = 0
    /\ t0 = 0
    /\ bRead = NotMoved
    /\ solveFailed = FALSE

Exit(why) ==
    /\ pc' = "exit"
    /\ exitAt' = why

\* ---------------------------------------------------------------- driver
\* ibpm.cc 97-102
ParseArgs ==
    /\ pc = "parse"
    /\ modelType' = str2model(modelName)
    /\ IF ~inputIsValid \/ modelType' = "INVALID" \/ helpFlag
         THEN Exit("usage")
         ELSE pc' = "check" /\ exitAt' = exitAt
    /\ UNCHANGED <<args, geomVars, modelVars, eig, lifecycle, x, icLoad, i,
                   advLocals, hist>>

\* variant of CheckBaseFlow: the two WARNING branches warn and go on
CheckBaseFlow_warnOnly ==
    /\ pc = "check"
    /\ IF modelType # "NONLINEAR"
         THEN IF modelType # "LINEARPERIODIC" /\ baseFlow = ""
                THEN Exit("nobaseflow")
              ELSE IF modelType = "LINEARPERIODIC" /\ periodBaseFlowName = ""
                THEN Exit("noperiodicbaseflow")
              ELSE pc' = "geom" /\ exitAt' = exitAt
         ELSE pc' = "geom" /\ exitAt' = exitAt
    /\ UNCHANGED <<args, modelType, geomVars, modelVars, eig, lifecycle, x,
                   icLoad, i, advLocals, hist>>

\* ibpm.cc 104-125
CheckBaseFlow ==
    /\ pc = "check"
    /\ IF modelType # "NONLINEAR"
         THEN IF modelType # "LINEARPERIODIC" /\ baseFlow = ""
                THEN Exit("nobaseflow")
              ELSE IF modelType # "LINEARPERIODIC" /\ periodBaseFlowName # ""
                THEN Exit("periodicnotneeded")
              ELSE IF modelType = "LINEARPERIODIC" /\ periodBaseFlowName = ""
                THEN Exit("noperiodicbaseflow")
              ELSE IF modelType = "LINEARPERIODIC" /\ baseFlow # ""
                THEN Exit("baseflownotneeded")
              ELSE pc' = "geom" /\ exitAt' = exitAt
         ELSE pc' = "geom" /\ exitAt' = exitAt
    /\ UNCHANGED <<args, modelType, geomVars, modelVars, eig, lifecycle, x,
                   icLoad, i, advLocals, hist>>

\* ibpm.cc 154-161
LoadGeometry ==
    /\ pc = "geom"
    /\ \E ok \in BOOLEAN, stat \in BOOLEAN :
         IF ok
           THEN /\ stationary' = stat
                /\ pc' = "model"
                /\ exitAt' = exitAt
           ELSE /\ stationary' = stationary
                /\ Exit("geometry")
    /\ UNCHANGED <<args, modelType, bodiesAt, modelVars, eig, lifecycle, x,
                   icLoad, i, advLocals, hist>>

\* ibpm.cc 170-205: x00.load / x0[i].load results are not looked at
SetupModel ==
    /\ pc = "model"
    /\ \E lam \in Lambdas : lambda' = lam
    /\ IF modelType = "NONLINEAR"
         THEN /\ x0' = <<>>
              /\ x00' = x00
              /\ baseLoadOk' = <<>>
       ELSE IF modelType \in {"LINEAR", "ADJOINT"}
         THEN \E ok \in BOOLEAN, s \in BaseStates :
                /\ x00' = s
                /\ x0' = <<s>>
                /\ baseLoadOk' = <<ok>>
       ELSE \E oks \in [1 .. period -> BOOLEAN], ss \in [1 .. period -> BaseStates] :
                /\ x0' = ss
                /\ x00' = ss[1]
                /\ baseLoadOk' = oks
    /\ pc' = "solver"
    /\ UNCHANGED <<exitAt, args, modelType, geomVars, eig, lifecycle, x,
                   icLoad, i, advLocals, hist>>

\* ibpm.cc 208-210, 307-330 and Euler::Euler.  Of the schemes GetSolver knows,
\* Euler is the one whose advance is modelled; SolverNames holds it and an
\* unrecognized name.
GetSolver ==
    /\ pc = "solver"
    /\ IF MakeLowercase(integratorType) = "euler"
         THEN /\ eig' = linearTermEigenvalues(lambda, dt)
              /\ pc' = "ts_load"
              /\ exitAt' = exitAt
         ELSE /\ eig' = eig
              /\ Exit("solver")
    /\ UNCHANGED <<args, modelType, geomVars, modelVars, lifecycle, x,
                   icLoad, i, advLocals, hist>>

\* variant of StepperLoad: the result of load is not looked at
StepperLoad_unchecked ==
    /\ pc = "ts_load"
    /\ \E ok \in BOOLEAN :
         /\ lifecycle' = Append(lifecycle, IF ok THEN "load_ok" ELSE "load_fail")
         /\ pc' = "ic"
    /\ UNCHANGED <<exitAt, args, modelType, geomVars, modelVars, eig, x,
                   icLoad, i, advLocals, hist>>

\* ibpm.cc 211: if ( ! solver->load( outdir + name ) )
StepperLoad ==
    /\ pc = "ts_load"
    /\ \E ok \in BOOLEAN :
         /\ lifecycle' = Append(lifecycle, IF ok THEN "load_ok" ELSE "load_fail")
         /\ pc' = IF ok THEN "ic" ELSE "ts_init"
    /\ UNCHANGED <<exitAt, args, modelType, geomVars, modelVars, eig, x,
                   icLoad, i, advLocals, hist>>

\* ibpm.cc 212
StepperInit ==
    /\ pc = "ts_init"
    /\ lifecycle' = Append(lifecycle, "init")
    /\ pc' = "ts_save"
    /\ UNCHANGED <<exitAt, args, modelType, geomVars, modelVars, eig, x,
                   icLoad, i, advLocals, hist>>

\* ibpm.cc 213
StepperSave ==
    /\ pc = "ts_save"
    /\ lifecycle' = Append(lifecycle, "save")
    /\ pc' = "ic"
    /\ UNCHANGED <<exitAt, args, modelType, geomVars, modelVars, eig, x,
                   icLoad, i, advLocals, hist>>

\* x.q -= x00.q; x.omega -= x00.omega; x.f = 0
SubtractBase(s) ==
    [s EXCEPT !.q = (s.q + FieldMod - x00.q) % FieldMod,
              !.gamma = (s.gamma + FieldMod - x00.gamma) % FieldMod,
              !.f = 0]

\* ibpm.cc 217-244
LoadIC ==
    /\ pc = "ic"
    /\ IF icFile # ""
         THEN \E ok \in BOOLEAN, s \in IcStates :
                LET loaded == IF ok THEN s ELSE ZeroState IN
                /\ icLoad' = IF ok THEN "ok" ELSE "failed"
                /\ IF subtractBaseflow
                     THEN IF modelType # "NONLINEAR"
                            THEN /\ x' = SubtractBase(loaded)
                                 /\ pc' = "logger"
                                 /\ exitAt' = exitAt
                            ELSE /\ x' = loaded
                                 /\ Exit("subbaseflow")
                     ELSE /\ x' = loaded
                          /\ pc' = "logger"
                          /\ exitAt' = exitAt
         ELSE /\ icLoad' = "none"
              /\ x' = ZeroState
              /\ pc' = "logger"
              /\ exitAt' = exitAt
    /\ UNCHANGED <<args, modelType, geomVars, modelVars, eig, lifecycle, i,
                   advLocals, hist>>

\* ibpm.cc 246-267: outputs are set up and the initial state is written
LoggerInit ==
    /\ pc = "logger"
    /\ i' = 1
    /\ t0' = x.time
    /\ pc' = "loop"
    /\ UNCHANGED <<exitAt, args, modelType, geomVars, modelVars, eig,
                   lifecycle, x, icLoad, advLocals, entry, ops, nAdv, bRead,
                   solveFailed>>

\* ibpm.cc 269-271: loop test and the call solver->advance( x )
LoopTest ==
    /\ pc = "loop"
    /\ IF i <= numSteps
         THEN /\ pc' = "adv_move"
              /\ entry' = x
              /\ ops' = <<>>
         ELSE /\ pc' = "cleanup"
              /\ UNCHANGED <<entry, ops>>
    /\ UNCHANGED <<exitAt, args, modelType, geomVars, modelVars, eig,
                   lifecycle, x, icLoad, i, advLocals, nAdv, t0, bRead,
                   solveFailed>>

\* ibpm.cc 272-277: forces are computed and the state is written
Output ==
    /\ pc = "output"
    /\ i' = i + 1
    /\ pc' = "loop"
    /\ UNCHANGED <<exitAt, args, modelType, geomVars, modelVars, eig,
                   lifecycle, x, icLoad, advLocals, hist>>

\* ibpm.cc 279-282
Cleanup ==
    /\ pc = "cleanup"
    /\ pc' = "done"
    /\ UNCHANGED <<exitAt, args, modelType, geomVars, modelVars, eig,
                   lifecycle, x, icLoad, i, advLocals, hist>>

\* -------------------------------------------------------- Euler::advance
\* variant of AdvMove: the bodies are moved whether or not they are stationary
AdvMove_always ==
    /\ pc = "adv_move"
    /\ bodiesAt' = x.time
    /\ ops' = IF ~stationary THEN Append(ops, "move") ELSE ops
    /\ pc' = "adv_rhs"
    /\ UNCHANGED <<exitAt, args, modelType, stationary, modelVars, eig,
                   lifecycle, x, icLoad, i, advLocals, entry, nAdv, t0,
                   bRead, solveFailed>>

\* Euler.cc 36-39
AdvMove ==
    /\ pc = "adv_move"
    /\ IF ~stationary
         THEN /\ bodiesAt' = x.time
              /\ ops' = Append(ops, "move")
         ELSE UNCHANGED <<bodiesAt, ops>>
    /\ pc' = "adv_rhs"
    /\ UNCHANGED <<exitAt, args, modelType, stationary, modelVars, eig,
                   lifecycle, x, icLoad, i, advLocals, entry, nAdv, t0,
                   bRead, solveFailed>>

\* variant of AdvRhs: the product is formed in the eigenvalue factor itself
AdvRhs_inPlace ==
    /\ pc = "adv_rhs"
    /\ eig' = (S(x.gamma) * eig) % FieldMod
    /\ a' = (Sinv(eig') + dt * nonlinear(x)) % FieldMod
    /\ ops' = Append(ops, "rhs")
    /\ pc' = "adv_b"
    /\ UNCHANGED <<exitAt, args, modelType, geomVars, modelVars,
                   lifecycle, x, icLoad, i, b, entry, nAdv, t0, bRead,
                   solveFailed>>

\* Euler.cc 42-47
AdvRhs ==
    /\ pc = "adv_rhs"
    /\ a' = rhsA(x, eig, dt)
    /\ ops' = Append(ops, "rhs")
    /\ pc' = "adv_b"
    /\ UNCHANGED <<exitAt, args, modelType, geomVars, modelVars, eig,
                   lifecycle, x, icLoad, i, b, entry, nAdv, t0, bRead,
                   solveFailed>>

\* Euler.cc 50
AdvB ==
    /\ pc = "adv_b"
    /\ b' = getVelocities
    /\ bRead' = bodiesAt
    /\ ops' = Append(ops, "b")
    /\ pc' = "adv_solve"
    /\ UNCHANGED <<exitAt, args, modelType, geomVars, modelVars, eig,
                   lifecycle, x, icLoad, i, a, entry, nAdv, t0, solveFailed>>

\* variant of AdvSolve: a failed solve is caught and the step goes on
AdvSolve_absorb ==
    /\ pc = "adv_solve"
    /\ \E converged \in BOOLEAN :
         /\ solveFailed' = (solveFailed \/ ~converged)
         /\ x' = IF converged
                   THEN [x EXCEPT !.gamma = solveGamma(a, b), !.f = solveF(a, b)]
                   ELSE x
         /\ ops' = Append(ops, "solve")
         /\ pc' = "adv_flux"
    /\ UNCHANGED <<exitAt, args, modelType, geomVars, modelVars, eig,
                   lifecycle, icLoad, i, advLocals, entry, nAdv, t0, bRead>>

\* Euler.cc 53: a ConvergenceError of solve is not caught here nor in main
AdvSolve ==
    /\ pc = "adv_solve"
    /\ \E converged \in BOOLEAN :
         IF converged
           THEN /\ x' = [x EXCEPT !.gamma = solveGamma(a, b),
                                  !.f = solveF(a, b)]
                /\ ops' = Append(ops, "solve")
                /\ pc' = "adv_flux"
                /\ solveFailed' = solveFailed
           ELSE /\ solveFailed' = TRUE
                /\ pc' = "terminated"
                /\ UNCHANGED <<x, ops>>
    /\ UNCHANGED <<exitAt, args, modelType, geomVars, modelVars, eig,
                   lifecycle, icLoad, i, advLocals, entry, nAdv, t0, bRead>>

\* variant of AdvFlux: the flux is taken from the circulation before the solve
AdvFlux_staleGamma ==
    /\ pc = "adv_flux"
    /\ x' = [x EXCEPT !.q = computeFlux(entry.gamma)]
    /\ ops' = Append(ops, "flux")
    /\ pc' = "adv_time"
    /\ UNCHANGED <<exitAt, args, modelType, geomVars, modelVars, eig,
                   lifecycle, icLoad, i, advLocals, entry, nAdv, t0, bRead,
                   solveFailed>>

\* Euler.cc 56
AdvFlux ==
    /\ pc = "adv_flux"
    /\ x' = [x EXCEPT !.q = computeFlux(x.gamma)]
    /\ ops' = Append(ops, "flux")
    /\ pc' = "adv_time"
    /\ UNCHANGED <<exitAt, args, modelType, geomVars, modelVars, eig,
                   lifecycle, icLoad, i, advLocals, entry, nAdv, t0, bRead,
                   solveFailed>>

\* variant of AdvTime: the time is advanced by one step count, not by h
AdvTime_countsSteps ==
    /\ pc = "adv_time"
    /\ x' = [x EXCEPT !.time = x.time + 1]
    /\ ops' = Append(ops, "time")
    /\ nAdv' = nAdv + 1
    /\ pc' = "output"
    /\ UNCHANGED <<exitAt, args, modelType, geomVars, modelVars, eig,
                   lifecycle, icLoad, i, advLocals, entry, t0, bRead,
                   solveFailed>>

\* Euler.cc 59-60
AdvTime ==
    /\ pc = "adv_time"
    /\ x' = [x EXCEPT !.time = x.time + dt]
    /\ ops' = Append(ops, "time")
    /\ nAdv' = nAdv + 1
    /\ pc' = "output"
    /\ UNCHANGED <<exitAt, args, modelType, geomVars, modelVars, eig,
                   lifecycle, icLoad, i, advLocals, entry, t0, bRead,
                   solveFailed>>

Next ==
    \/ ParseArgs
    \/ CheckBaseFlow
    \/ LoadGeometry
    \/ SetupModel
    \/ GetSolver
    \/ StepperLoad
    \/ StepperInit
    \/ StepperSave
    \/ LoadIC
    \/ LoggerInit
    \/ LoopTest
    \/ Output
    \/ Cleanup
    \/ AdvMove
    \/ AdvRhs
    \/ AdvB
    \/ AdvSolve
    \/ AdvFlux
    \/ AdvTime

Spec == Init /\ [][Next]_vars

\* ============================================================ properties
InAdvance == pc \in {"adv_move", "adv_rhs", "adv_b", "adv_solve", "adv_flux", "adv_time"}
AfterAdvance == pc \in {"output", "loop", "cleanup", "done"} /\ nAdv >= 1
Count(seq, e) == Cardinality({k \in 1 .. Len(seq) : seq[k] = e})
IsPrefix(p, q) == Len(p) <= Len(q) /\ \A k \in 1 .. Len(p) : p[k] = q[k]
EulerOps == <<"rhs", "b", "solve", "flux", "time">>
ExpectedOps == IF stationary THEN EulerOps ELSE <<"move">> \o EulerOps
BaseLoadFailed == \E k \in 1 .. Len(baseLoadOk) : ~baseLoadOk[k]
Incompatible ==
    \/ modelType \in {"NONLINEAR", "LINEAR", "ADJOINT"} /\ periodBaseFlowName # ""
    \/ modelType = "LINEARPERIODIC" /\ baseFlow # ""
    \/ modelType \in {"LINEAR", "ADJOINT"} /\ baseFlow = ""
    \/ modelType = "LINEARPERIODIC" /\ periodBaseFlowName = ""
ConfigExits == {"usage", "nobaseflow", "periodicnotneeded", "noperiodicbaseflow",
                "baseflownotneeded"}

\* C1: with a non-stationary geometry, when b has been read the bodies are at
\* the end-of-step time, i.e. the time the state had on entry plus h.
C1_BodiesAtNewTimeWhenBRead ==
    (pc = "adv_solve" /\ ~stationary) => bRead = entry.time + dt

\* C2: every advance call that returns has added h to state.time exactly
\* once, as its last operation, and after n returned calls the time is the
\* time at the start of the loop plus n*h.
C2_TimeAdvancesByH ==
    /\ (InAdvance \/ AfterAdvance \/ pc = "terminated") => x.time = t0 + nAdv * dt
    /\ InAdvance => x.time = entry.time
    /\ pc = "output" =>
          /\ x.time = entry.time + dt
          /\ Count(ops, "time") = 1
          /\ ops[Len(ops)] = "time"

C2_Witness ==
    pc = "done" /\ nAdv = 2 /\ t0 = 3 /\ x.time = 3 + 2 * dt

\* C3: wherever the driver holds the state after an advance call returned,
\* q is the flux of the gamma it holds; in the call computeFlux ran after the
\* solve and only the time increment followed it.
C3_FluxConsistent ==
    /\ AfterAdvance => x.q = computeFlux(x.gamma)
    /\ pc = "output" =>
          \E j \in 1 .. Len(ops) :
             /\ ops[j] = "flux"
             /\ \A k \in 1 .. Len(ops) : ops[k] = "solve" => k < j
             /\ \A k \in (j + 1) .. Len(ops) : ops[k] = "time"

C3_Witness ==
    pc = "output" /\ nAdv = 2 /\ x.gamma # entry.gamma /\ x.q # entry.q

\* C4 (as stated): every incompatible combination of model variant and base
\* flow options, the Nonlinear variant included, keeps the run from reaching
\* an advance call.
C4_IncompatibleNeverAdvances ==
    Incompatible => ~InAdvance

\* C4 (amended): for the Linearized, Adjoint and LinearizedPeriodic variants
\* an incompatible combination ends the run with an error exit right after
\* the options are checked; for the Nonlinear variant the base flow options
\* are not checked and never cause an exit.
C4_NonNonlinearIncompatibleExits ==
    /\ (modelType \in {"LINEAR", "ADJOINT", "LINEARPERIODIC"} /\ Incompatible
           /\ pc \notin {"parse", "check"})
         => (pc = "exit" /\ exitAt \in ConfigExits)
    /\ (modelType = "NONLINEAR" /\ pc = "exit")
         => exitAt \notin (ConfigExits \ {"usage"})

C4_Witness ==
    /\ pc = "exit" /\ exitAt = "periodicnotneeded"
    /\ modelType = "ADJOINT" /\ baseFlow # ""

\* C5: a failed load of a required base flow aborts the run: the model is
\* not built from it and no advance call is reached.
C5_BaseFlowFailureAborts ==
    BaseLoadFailed => pc = "exit"

C7_FailedIcGivesZeroState ==
    (icLoad = "failed" /\ pc = "adv_move" /\ nAdv = 0)
        => (entry.gamma = 0 /\ entry.q = 0 /\ entry.f = 0)

\* C8: init() is called exactly when load() returned false, save() only
\* right after that init(), and a successful load or init() has completed
\* before any advance call.
C8_LoadCheckedBeforeAdvance ==
    /\ \/ IsPrefix(lifecycle, <<"load_ok">>)
       \/ IsPrefix(lifecycle, <<"load_fail", "init", "save">>)
    /\ (pc \in {"ic", "logger", "loop", "output", "cleanup", "done", "terminated"}
           \/ InAdvance)
         => lifecycle \in {<<"load_ok">>, <<"load_fail", "init", "save">>}

C8_Witness ==
    pc = "adv_move" /\ nAdv = 0 /\ lifecycle = <<"load_fail", "init", "save">>

C10_EulerStepOrder ==
    /\ pc = "output" =>
          /\ ops = ExpectedOps
          /\ a = rhsA(entry, linearTermEigenvalues(lambda, dt), dt)
          /\ x.gamma = solveGamma(a, b)
          /\ x.f = solveF(a, b)
          /\ x.q = computeFlux(x.gamma)
    /\ (InAdvance \/ AfterAdvance) => eig = linearTermEigenvalues(lambda, dt)
    /\ InAdvance => IsPrefix(ops, ExpectedOps)

C10_Witness ==
    pc = "output" /\ nAdv = 2 /\ ~stationary /\ Len(ops) = 6 /\ a # entry.gamma
====
